---- MODULE Spec2Model ----
(***************************************************************************)
(* Model of unbun.py, the Bun standalone bundle extractor: trailer         *)
(* discovery (find_module_graph), record decoding (iter_modules,           *)
(* slice_from), the eligibility policy (should_extract) and the write loop *)
(* of extract.                                                             *)
(*                                                                         *)
(* Bytes are integers 0..255, byte strings and Python strings are          *)
(* sequences (of bytes, resp. of code points).  A Python index i is the    *)
(* TLA+ index i + 1.  A 64-bit value is kept as its two 32-bit limbs       *)
(* [lo, hi] (value = hi * 2^32 + lo), since the values of the checker are  *)
(* 32-bit integers.                                                        *)
(***************************************************************************)
EXTENDS Integers, Sequences, FiniteSets, TLC

Min(a, b) == IF a < b THEN a ELSE b

(***************************************************************************)
(* Program constants.                                                      *)
(***************************************************************************)
\* TRAILER = b"\n---- Bun! ----\n"
TRAILER == <<10, 45, 45, 45, 45, 32, 66, 117, 110, 33, 32, 45, 45, 45, 45, 10>>
OFFSETS_STRUCT_SIZE == 32
MODULE_STRUCT_SIZE == 36

\* (".js", ".jsx", ".ts", ".tsx", ".mjs", ".cjs")
JS_EXTENSIONS ==
    << <<46, 106, 115>>, <<46, 106, 115, 120>>, <<46, 116, 115>>,
       <<46, 116, 115, 120>>, <<46, 109, 106, 115>>, <<46, 99, 106, 115>> >>

(***************************************************************************)
(* Python primitives the program uses.                                     *)
(***************************************************************************)
\* s[a:b] for 0 <= a, 0 <= b: the slice is clamped to the sequence.
PySlice(s, a, b) ==
    IF a >= Min(b, Len(s)) THEN <<>> ELSE SubSeq(s, a + 1, Min(b, Len(s)))

\* int.from_bytes(b, "little") of at most four bytes.
RECURSIVE from_bytes_le(_)
from_bytes_le(b) ==
    IF b = <<>> THEN 0 ELSE Head(b) + 256 * from_bytes_le(Tail(b))

\* int.from_bytes(b, "little") of eight bytes, as limbs.
from_bytes_u64(b) ==
    [lo |-> from_bytes_le(PySlice(b, 0, 4)), hi |-> from_bytes_le(PySlice(b, 4, 8))]

\* s.endswith(suffix)
endswith(s, suffix) ==
    /\ Len(suffix) <= Len(s)
    /\ SubSeq(s, Len(s) - Len(suffix) + 1, Len(s)) = suffix

\* s.startswith(prefix, at)
MatchAt(s, pat, i) ==
    /\ i >= 0
    /\ i + Len(pat) <= Len(s)
    /\ SubSeq(s, i + 1, i + Len(pat)) = pat

\* buffer.rfind(pat): the highest index at which pat occurs, or -1.
RECURSIVE RFindFrom(_, _, _)
RFindFrom(s, pat, i) ==
    IF i < 0 THEN -1
    ELSE IF MatchAt(s, pat, i) THEN i
    ELSE RFindFrom(s, pat, i - 1)

\* Faulty variant: the first occurrence (find instead of rfind).
FindFirstBug(s, pat) ==
    IF \E i \in 0..Len(s) : MatchAt(s, pat, i)
    THEN CHOOSE i \in 0..Len(s) :
            /\ MatchAt(s, pat, i)
            /\ \A j \in 0..(i - 1) : ~MatchAt(s, pat, j)
    ELSE -1

rfind(s, pat) == RFindFrom(s, pat, Len(s) - Len(pat))

(***************************************************************************)
(* decode_pointer: split packed 64-bit pointer into (offset, length).      *)
(***************************************************************************)
decode_pointer(raw) == [offset |-> raw.lo, length |-> raw.hi]

(***************************************************************************)
(* slice_from.  The result is [err, data]; err = "" on success.            *)
(***************************************************************************)
ERR_POINTER == "Module graph pointer out of range"
ERR_TRAILER == "Module graph trailer not found"
ERR_OFFSETS == "Module graph offsets out of range"
ERR_BYTE_COUNT == "Invalid module graph byte count"
ERR_START == "Module graph start before file"
ERR_TABLE == "Modules table exceeds module graph bounds"
ERR_NONE_FOUND == "No JavaScript bundles found in module graph"

Ok(data) == [err |-> "", data |-> data]
Raise(msg) == [err |-> msg, data |-> <<>>]

\* Faulty variant: every trailing NUL is dropped (rstrip instead of one byte).
RECURSIVE StripAllNulsBug(_)
StripAllNulsBug(data) ==
    IF Len(data) > 0 /\ data[Len(data)] = 0
    THEN StripAllNulsBug(SubSeq(data, 1, Len(data) - 1))
    ELSE data

StripOneNul(data) ==
    IF Len(data) > 0 /\ data[Len(data)] = 0
    THEN SubSeq(data, 1, Len(data) - 1)
    ELSE data

\* Faulty variant: the upper bound is exclusive (end >= len(blob)).
slice_from_exclusive_bug(blob, pointer) ==
    LET offset == pointer.offset
        length == pointer.length
        end == offset + length
    IN  IF length = 0 THEN Ok(<<>>)
        ELSE IF offset < 0 \/ end >= Len(blob) THEN Raise(ERR_POINTER)
        ELSE Ok(StripOneNul(PySlice(blob, offset, end)))

slice_from(blob, pointer) ==
    LET offset == pointer.offset
        length == pointer.length
        end == offset + length
    IN  IF length = 0 THEN Ok(<<>>)
        ELSE IF offset < 0 \/ end > Len(blob) THEN Raise(ERR_POINTER)
        ELSE Ok(StripOneNul(PySlice(blob, offset, end)))

(***************************************************************************)
(* find_module_graph.  The result is [err, graph, modules_raw].            *)
(***************************************************************************)
NoGraph(msg) == [err |-> msg, graph |-> <<>>, modules_raw |-> [lo |-> 0, hi |-> 0]]

\* Faulty variant: a byte count of zero is let through (byte_count < 0).
find_module_graph_zero_bug(buffer) ==
    LET trailer_idx == rfind(buffer, TRAILER)
        offsets_start == trailer_idx - OFFSETS_STRUCT_SIZE
        byte_count == from_bytes_u64(PySlice(buffer, offsets_start, offsets_start + 8))
        module_graph_start == offsets_start - byte_count.lo
    IN  IF trailer_idx = -1 THEN NoGraph(ERR_TRAILER)
        ELSE IF offsets_start < 0 THEN NoGraph(ERR_OFFSETS)
        ELSE IF byte_count.hi > 0 \/ byte_count.lo > Len(buffer)
             THEN NoGraph(ERR_BYTE_COUNT)
        ELSE IF module_graph_start < 0 THEN NoGraph(ERR_START)
        ELSE [err |-> "",
              graph |-> PySlice(buffer, module_graph_start, offsets_start),
              modules_raw |->
                  from_bytes_u64(PySlice(buffer, offsets_start + 8, offsets_start + 16))]

find_module_graph(buffer) ==
    LET trailer_idx == rfind(buffer, TRAILER)
        offsets_start == trailer_idx - OFFSETS_STRUCT_SIZE
        byte_count == from_bytes_u64(PySlice(buffer, offsets_start, offsets_start + 8))
        \* byte_count <= len(buffer) here, so it is its low limb
        module_graph_start == offsets_start - byte_count.lo
    IN  IF trailer_idx = -1 THEN NoGraph(ERR_TRAILER)
        ELSE IF offsets_start < 0 THEN NoGraph(ERR_OFFSETS)
        ELSE IF \/ (byte_count.hi = 0 /\ byte_count.lo <= 0)
                \/ (byte_count.hi > 0 \/ byte_count.lo > Len(buffer))
             THEN NoGraph(ERR_BYTE_COUNT)
        ELSE IF module_graph_start < 0 THEN NoGraph(ERR_START)
        ELSE [err |-> "",
              graph |-> PySlice(buffer, module_graph_start, offsets_start),
              modules_raw |->
                  from_bytes_u64(PySlice(buffer, offsets_start + 8, offsets_start + 16))]

(***************************************************************************)
(* bytes.decode("utf-8", errors="replace"): a well-formed sequence becomes *)
(* its code point, a maximal ill-formed prefix becomes one U+FFFD.         *)
(***************************************************************************)
REPLACEMENT_CHAR == 65533

\* Number of continuation bytes the lead byte announces (0: not a lead byte).
Utf8Need(b) ==
    IF b \in 194..223 THEN 1
    ELSE IF b \in 224..239 THEN 2
    ELSE IF b \in 240..244 THEN 3
    ELSE 0

\* The j-th byte c after the lead byte is acceptable.
Utf8ContOk(lead, j, c) ==
    IF j > 1 THEN c \in 128..191
    ELSE IF lead = 224 THEN c \in 160..191
    ELSE IF lead = 237 THEN c \in 128..159
    ELSE IF lead = 240 THEN c \in 144..191
    ELSE IF lead = 244 THEN c \in 128..143
    ELSE c \in 128..191

\* Number of acceptable continuation bytes that follow the lead byte at i.
Utf8Valid(s, i) ==
    LET n == Utf8Need(s[i])
        good(j) == i + j <= Len(s) /\ Utf8ContOk(s[i], j, s[i + j])
    IN  IF n >= 1 /\ good(1)
        THEN IF n >= 2 /\ good(2)
             THEN IF n >= 3 /\ good(3) THEN 3 ELSE 2
             ELSE 1
        ELSE 0

Utf8CodePoint(s, i, n) ==
    IF n = 1 THEN (s[i] - 192) * 64 + (s[i + 1] - 128)
    ELSE IF n = 2 THEN (s[i] - 224) * 4096 + (s[i + 1] - 128) * 64 + (s[i + 2] - 128)
    ELSE (s[i] - 240) * 262144 + (s[i + 1] - 128) * 4096
            + (s[i + 2] - 128) * 64 + (s[i + 3] - 128)

RECURSIVE Utf8DecodeFrom(_, _)
Utf8DecodeFrom(s, i) ==
    IF i > Len(s) THEN <<>>
    ELSE IF s[i] < 128 THEN <<s[i]>> \o Utf8DecodeFrom(s, i + 1)
    ELSE LET n == Utf8Need(s[i])
             k == Utf8Valid(s, i)
         IN  IF n > 0 /\ k = n
             THEN <<Utf8CodePoint(s, i, n)>> \o Utf8DecodeFrom(s, i + n + 1)
             ELSE <<REPLACEMENT_CHAR>> \o Utf8DecodeFrom(s, i + k + 1)

decode_utf8_replace(s) == Utf8DecodeFrom(s, 1)

(***************************************************************************)
(* str methods used by extract.                                            *)
(***************************************************************************)
SLASH == 47
UNDERSCORE == 95

\* s.replace(old, new): non-overlapping occurrences, left to right.
RECURSIVE ReplaceFrom(_, _, _, _)
ReplaceFrom(s, old, new, i) ==
    IF i >= Len(s) THEN <<>>
    ELSE IF MatchAt(s, old, i) THEN new \o ReplaceFrom(s, old, new, i + Len(old))
    ELSE <<s[i + 1]>> \o ReplaceFrom(s, old, new, i + 1)

str_replace(s, old, new) == ReplaceFrom(s, old, new, 0)

RECURSIVE lstrip(_, _)
lstrip(s, ch) ==
    IF Len(s) > 0 /\ Head(s) = ch THEN lstrip(Tail(s), ch) ELSE s

RECURSIVE rstrip(_, _)
rstrip(s, ch) ==
    IF Len(s) > 0 /\ s[Len(s)] = ch THEN rstrip(SubSeq(s, 1, Len(s) - 1), ch) ELSE s

str_strip(s, ch) == rstrip(lstrip(s, ch), ch)

\* str(n) for n >= 0, as the code points of its decimal digits.
RECURSIVE str_int(_)
str_int(n) ==
    IF n < 10 THEN <<48 + n>> ELSE str_int(n \div 10) \o <<48 + (n % 10)>>

(***************************************************************************)
(* should_extract.                                                         *)
(***************************************************************************)
\* Faulty variant: the encoding test guards the loader fallback only.
should_extract_bug(name, encoding, loader) ==
    IF \E k \in 1..Len(JS_EXTENSIONS) : endswith(name, JS_EXTENSIONS[k]) THEN TRUE
    ELSE encoding # 0 /\ loader \in {1, 2}

should_extract(name, encoding, loader) ==
    IF encoding = 0 THEN FALSE
    ELSE IF \E k \in 1..Len(JS_EXTENSIONS) : endswith(name, JS_EXTENSIONS[k]) THEN TRUE
    ELSE loader \in {1, 2}

(***************************************************************************)
(* iter_modules: the checks before the loop, and the decoding of one       *)
(* record.                                                                 *)
(***************************************************************************)
\* The pair read from eight bytes of the table at base.
table_pointer(table, base) ==
    [offset |-> from_bytes_le(PySlice(table, base, base + 4)),
     length |-> from_bytes_le(PySlice(table, base + 4, base + 8))]

\* Faulty variant: the bounds test comes before the emptiness test.
iter_modules_begin_bounds_first_bug(g, raw) ==
    LET modules_offset == decode_pointer(raw).offset
        modules_length == decode_pointer(raw).length
    IN  IF modules_offset + modules_length > Len(g)
        THEN [err |-> ERR_TABLE, count |-> 0, table |-> <<>>]
        ELSE IF modules_length = 0 \/ modules_length % MODULE_STRUCT_SIZE # 0
        THEN [err |-> "", count |-> 0, table |-> <<>>]
        ELSE [err |-> "",
              count |-> modules_length \div MODULE_STRUCT_SIZE,
              table |-> PySlice(g, modules_offset, modules_offset + modules_length)]

\* Lines 70-78: [err, count, table]; count = 0 when the generator returns at once.
iter_modules_begin(g, raw) ==
    LET modules_offset == decode_pointer(raw).offset
        modules_length == decode_pointer(raw).length
    IN  IF modules_length = 0 \/ modules_length % MODULE_STRUCT_SIZE # 0
        THEN [err |-> "", count |-> 0, table |-> <<>>]
        ELSE IF modules_offset + modules_length > Len(g)
        THEN [err |-> ERR_TABLE, count |-> 0, table |-> <<>>]
        ELSE [err |-> "",
              count |-> modules_length \div MODULE_STRUCT_SIZE,
              table |-> PySlice(g, modules_offset, modules_offset + modules_length)]

NoEntry == [name |-> <<>>, contents |-> <<>>, encoding |-> 0, loader |-> 0,
            module_format |-> 0, side |-> 0]

\* Faulty variant: the contents pointer is resolved against the table, not the graph.
iter_modules_record_table_bug(g, table, i) ==
    LET base == i * MODULE_STRUCT_SIZE
        name == slice_from(g, table_pointer(table, base))
        contents == slice_from(table, table_pointer(table, base + 8))
    IN  IF name.err # "" THEN [err |-> name.err, entry |-> NoEntry]
        ELSE IF contents.err # "" THEN [err |-> contents.err, entry |-> NoEntry]
        ELSE [err |-> "",
              entry |-> [name |-> decode_utf8_replace(name.data),
                         contents |-> contents.data,
                         encoding |-> table[base + 32 + 1],
                         loader |-> table[base + 33 + 1],
                         module_format |-> table[base + 34 + 1],
                         side |-> table[base + 35 + 1]]]

\* Lines 81-98 for record i: [err, entry].
iter_modules_record(g, table, i) ==
    LET base == i * MODULE_STRUCT_SIZE
        name_ptr == table_pointer(table, base)
        contents_ptr == table_pointer(table, base + 8)
        sourcemap_ptr == table_pointer(table, base + 16)
        bytecode_ptr == table_pointer(table, base + 24)
        name == slice_from(g, name_ptr)
        contents == slice_from(g, contents_ptr)
    IN  IF name.err # "" THEN [err |-> name.err, entry |-> NoEntry]
        ELSE IF contents.err # "" THEN [err |-> contents.err, entry |-> NoEntry]
        ELSE [err |-> "",
              entry |-> [name |-> decode_utf8_replace(name.data),
                         contents |-> contents.data,
                         encoding |-> table[base + 32 + 1],
                         loader |-> table[base + 33 + 1],
                         module_format |-> table[base + 34 + 1],
                         side |-> table[base + 35 + 1]]]

(***************************************************************************)
(* extract: the output name of one bundle (lines 145-155).                 *)
(***************************************************************************)
\* "/$bunfs/root/"
BUNFS_ROOT == <<47, 36, 98, 117, 110, 102, 115, 47, 114, 111, 111, 116, 47>>
\* "bundle"
BUNDLE == <<98, 117, 110, 100, 108, 101>>
\* ".js"
DOT_JS == <<46, 106, 115>>

\* Faulty variant: the separators inside the name are kept.
sanitised_base_bug(name, sep) ==
    LET rel_name == str_replace(name, BUNFS_ROOT, <<>>)
        base == str_strip(rel_name, SLASH)
    IN  IF base = <<>> THEN BUNDLE ELSE base

sanitised_base(name, sep) ==
    LET rel_name == str_replace(name, BUNFS_ROOT, <<>>)
        base == str_replace(str_replace(str_strip(rel_name, SLASH),
                                        <<SLASH>>, <<UNDERSCORE>>),
                            <<sep>>, <<UNDERSCORE>>)
    IN  IF base = <<>> THEN BUNDLE ELSE base

\* Faulty variant: the loop is an if, the suffixed candidate is not tested again.
pick_candidate_once_bug(base, candidate, counter, written) ==
    IF candidate \in written
    THEN base \o <<UNDERSCORE>> \o str_int(counter)
    ELSE candidate

\* The while loop of lines 148-152, entered with candidate and counter.
RECURSIVE pick_candidate(_, _, _, _)
pick_candidate(base, candidate, counter, written) ==
    IF candidate \in written
    THEN pick_candidate(base, base \o <<UNDERSCORE>> \o str_int(counter),
                        counter + 1, written)
    ELSE candidate

output_candidate(name, sep, written) ==
    LET base == sanitised_base(name, sep)
    IN  pick_candidate(base, base, 1, written)

(***************************************************************************)
(* Input files.  A file is prefix, module graph (a pool of names and       *)
(* contents followed by the table of records), the 32-byte offsets struct, *)
(* the trailer, and a suffix.                                              *)
(***************************************************************************)
MaxRecords == 3

\* n.to_bytes(width, "little"), the inverse of from_bytes_le.
RECURSIVE to_bytes_le(_, _)
to_bytes_le(n, width) ==
    IF width = 0 THEN <<>> ELSE <<n % 256>> \o to_bytes_le(n \div 256, width - 1)

RECURSIVE Concat(_)
Concat(ss) == IF ss = <<>> THEN <<>> ELSE Head(ss) \o Concat(Tail(ss))

PoolItems ==
    << <<47, 36, 98, 117, 110, 102, 115, 47, 114, 111, 111, 116, 47, 97, 0>>, \* "/$bunfs/root/a\0"
       <<97, 0>>,                                           \* "a\0"
       <<97, 95, 49>>,                                      \* "a_1"
       <<46, 46, 47, 46, 46, 92, 120, 46, 116, 115, 0>>,    \* "../..\x.ts\0"
       <<120, 61, 49, 0, 0>>,                               \* "x=1\0\0"
       <<104, 105>>,                                        \* "hi"
       <<47, 97, 98, 115, 47, 112, 46, 99, 106, 115, 47>> >> \* "/abs/p.cjs/"

Pool == Concat(PoolItems)

ItemPtr(items, k) ==
    [offset |-> Len(Concat(SubSeq(items, 1, k - 1))), length |-> Len(items[k])]

PoolPtr(k) == ItemPtr(PoolItems, k)

\* Names for the eligibility policy: the six extensions, and names without one.
PolicyItems ==
    << <<120, 46, 106, 115>>,            \* "x.js"
       <<120, 46, 106, 115, 120>>,       \* "x.jsx"
       <<120, 46, 116, 115>>,            \* "x.ts"
       <<120, 46, 116, 115, 120>>,       \* "x.tsx"
       <<120, 46, 109, 106, 115>>,       \* "x.mjs"
       <<120, 46, 99, 106, 115>>,        \* "x.cjs"
       <<46, 106, 115>>,                 \* ".js"
       <<106, 115>>,                     \* "js"
       <<120, 46, 74, 83>>,              \* "x.JS"
       <<120, 46, 106, 115, 46, 109>>,   \* "x.js.m"
       <<120, 46, 106, 115, 0, 0>>,      \* "x.js\0\0"
       <<192, 175, 255, 46, 106, 115>>,  \* "\xc0\xaf\xff.js"
       <<47, 0>> >>                      \* "/\0"

PolicyPool == Concat(PolicyItems)

Rec(n, c, s, b, e, l) ==
    [name_ptr |-> n, contents_ptr |-> c, sourcemap_ptr |-> s, bytecode_ptr |-> b,
     encoding |-> e, loader |-> l, module_format |-> 1, side |-> 0]

\* Pointers of length 0, and a pointer ending one byte past a graph of glen bytes.
ZeroPtr == [offset |-> 0, length |-> 0]
FarZeroPtr == [offset |-> 70000, length |-> 0]
PastEndPtr(glen) == [offset |-> glen - 1, length |-> 2]

\* The records a graph of glen bytes may hold.
RecordKinds(glen) ==
    { Rec(PoolPtr(1), PoolPtr(6), ZeroPtr, ZeroPtr, 1, 1),
      Rec(PoolPtr(2), PoolPtr(5), ZeroPtr, ZeroPtr, 1, 2),
      Rec(PoolPtr(3), FarZeroPtr, ZeroPtr, FarZeroPtr, 2, 1),
      Rec(PoolPtr(4), PoolPtr(6), ZeroPtr, ZeroPtr, 1, 0),
      Rec(PoolPtr(4), PoolPtr(6), ZeroPtr, PastEndPtr(glen), 0, 1),
      Rec(PastEndPtr(glen), PoolPtr(6), ZeroPtr, ZeroPtr, 1, 1),
      Rec(PoolPtr(1), PastEndPtr(glen), ZeroPtr, ZeroPtr, 1, 1),
      Rec(PoolPtr(7), PoolPtr(5), PastEndPtr(glen), ZeroPtr, 1, 1) }

PtrBytes(ptr) == to_bytes_le(ptr.offset, 4) \o to_bytes_le(ptr.length, 4)

RecordBytes(r) ==
    PtrBytes(r.name_ptr) \o PtrBytes(r.contents_ptr) \o PtrBytes(r.sourcemap_ptr)
        \o PtrBytes(r.bytecode_ptr) \o <<r.encoding, r.loader, r.module_format, r.side>>

RECURSIVE TableBytes(_)
TableBytes(recs) ==
    IF recs = <<>> THEN <<>> ELSE RecordBytes(Head(recs)) \o TableBytes(Tail(recs))

\* byte_count (u64), modules_ptr (u64), then 16 bytes the extractor ignores.
OffsetsBytes(byte_count, mods) ==
    to_bytes_le(byte_count, 8) \o PtrBytes(mods) \o to_bytes_le(0, 16)

Prefix == <<127, 69, 76, 70>>

BuildFile(in) ==
    Prefix \o in.pool \o TableBytes(in.recs) \o OffsetsBytes(in.byte_count, in.mods) \o TRAILER

GraphLen(n) == Len(Pool) + n * MODULE_STRUCT_SIZE

\* Files whose offsets struct is right, with every table of at most MaxRecords records.
TableInputs ==
    UNION { { [pool |-> Pool, recs |-> recs, byte_count |-> GraphLen(n),
               mods |-> [offset |-> Len(Pool), length |-> n * MODULE_STRUCT_SIZE]] :
              recs \in [1..n -> RecordKinds(GraphLen(n))] } : n \in 0..MaxRecords }

\* Files with two good records, and a modules pointer or a byte count that
\* may be wrong.
HeaderInputs ==
    LET glen == GraphLen(2)
        recs == << Rec(PoolPtr(1), PoolPtr(6), ZeroPtr, ZeroPtr, 1, 1),
                   Rec(PoolPtr(4), PoolPtr(5), ZeroPtr, ZeroPtr, 1, 0) >>
    IN  { [pool |-> Pool, recs |-> recs, byte_count |-> bc, mods |-> [offset |-> off, length |-> len]] :
            bc \in {0, glen, glen + Len(Prefix) + 1, 70000},
            off \in {Len(Pool), Len(Pool) + MODULE_STRUCT_SIZE, glen, 70000},
            len \in {0, 1, MODULE_STRUCT_SIZE - 1, MODULE_STRUCT_SIZE,
                     MODULE_STRUCT_SIZE + 1, 2 * MODULE_STRUCT_SIZE} }

\* Files of one record, for every name, encoding and loader of the policy.
PolicyInputs ==
    LET glen == Len(PolicyPool) + MODULE_STRUCT_SIZE
    IN  { [pool |-> PolicyPool,
           recs |-> << Rec(ItemPtr(PolicyItems, k), ZeroPtr, ZeroPtr, ZeroPtr, e, l) >>,
           byte_count |-> glen,
           mods |-> [offset |-> Len(PolicyPool), length |-> MODULE_STRUCT_SIZE]] :
            k \in 1..Len(PolicyItems), e \in {0, 1, 2, 255}, l \in {0, 1, 2, 3, 255} }

Inputs == TableInputs \cup HeaderInputs \cup PolicyInputs

(***************************************************************************)
(* extract as a state machine.                                             *)
(*   input          the description the file was built from (not read by   *)
(*                  the program)                                           *)
(*   buf            binary.read_bytes()                                    *)
(*   os_sep         os.sep of the platform                                 *)
(*   prettify       the prettify argument                                  *)
(*   pc             position in extract                                    *)
(*   graph, modules_raw   the result of find_module_graph                  *)
(*   table, count, idx    the locals of the iter_modules generator         *)
(*   decoded        the entries iter_modules has yielded                   *)
(*   bundles        the bundles list of extract                            *)
(*   err            the message of the ExtractionError raised, or ""       *)
(*   dir_created    output.mkdir has been called                           *)
(*   files          the files of the output directory: name -> contents    *)
(*   written_names  the local of the write loop                            *)
(*   writes         the paths write_bytes has written, in order            *)
(*   prettified     the files prettier has rewritten                       *)
(*   call           a single call of a function, for the function specs    *)
(***************************************************************************)
VARIABLES input, buf, os_sep, prettify, pc, graph, modules_raw, table, count, idx,
          decoded, bundles, err, dir_created, files, written_names, writes,
          prettified, call

vars == <<input, buf, os_sep, prettify, pc, graph, modules_raw, table, count, idx,
          decoded, bundles, err, dir_created, files, written_names, writes,
          prettified, call>>

NoCall == [fn |-> "none"]
EmptyFiles == [n \in {} |-> <<>>]

Locals0 ==
    /\ graph = <<>>
    /\ modules_raw = [lo |-> 0, hi |-> 0]
    /\ table = <<>>
    /\ count = 0
    /\ idx = 0
    /\ decoded = <<>>
    /\ bundles = <<>>
    /\ err = ""
    /\ dir_created = FALSE
    /\ files = EmptyFiles
    /\ written_names = {}
    /\ writes = <<>>
    /\ prettified = {}

Init ==
    /\ input \in Inputs
    /\ buf = BuildFile(input)
    /\ os_sep \in {47, 92}
    /\ prettify \in BOOLEAN
    /\ pc = "start"
    /\ call = NoCall
    /\ Locals0

Fail(msg) ==
    /\ pc' = "error"
    /\ err' = msg

\* Line 130.
Locate ==
    /\ pc = "start"
    /\ LET r == find_module_graph(buf)
       IN  IF r.err # ""
           THEN /\ Fail(r.err)
                /\ UNCHANGED <<graph, modules_raw>>
           ELSE /\ pc' = "begin"
                /\ graph' = r.graph
                /\ modules_raw' = r.modules_raw
                /\ UNCHANGED err
    /\ UNCHANGED <<input, buf, os_sep, prettify, table, count, idx, decoded, bundles,
                   dir_created, files, written_names, writes, prettified, call>>

\* Line 133, the first next() of the generator up to its loop: lines 70-78.
IterBegin ==
    /\ pc = "begin"
    /\ LET r == iter_modules_begin(graph, modules_raw)
       IN  IF r.err # ""
           THEN /\ Fail(r.err)
                /\ UNCHANGED <<table, count>>
           ELSE /\ pc' = IF r.count = 0 THEN "check" ELSE "iter"
                /\ table' = r.table
                /\ count' = r.count
                /\ UNCHANGED err
    /\ UNCHANGED <<input, buf, os_sep, prettify, graph, modules_raw, idx, decoded,
                   bundles, dir_created, files, written_names, writes, prettified, call>>

\* Faulty variant: an eligible entry is written as soon as it is decoded.
IterRecordStreamingBug ==
    /\ pc = "iter"
    /\ idx < count
    /\ LET r == iter_modules_record(graph, table, idx)
           e == r.entry
           dest == output_candidate(e.name, os_sep, written_names) \o DOT_JS
       IN  IF r.err # ""
           THEN /\ Fail(r.err)
                /\ UNCHANGED <<idx, decoded, bundles, dir_created, files>>
           ELSE /\ decoded' = Append(decoded, e)
                /\ bundles' = bundles
                /\ IF should_extract(e.name, e.encoding, e.loader)
                   THEN /\ dir_created' = TRUE
                        /\ files' = (dest :> e.contents) @@ files
                   ELSE UNCHANGED <<dir_created, files>>
                /\ idx' = idx + 1
                /\ pc' = IF idx + 1 = count THEN "check" ELSE "iter"
                /\ UNCHANGED err
    /\ UNCHANGED <<input, buf, os_sep, prettify, graph, modules_raw, table, count,
                   written_names, writes, prettified, call>>

\* One turn of the loop of line 133: the generator decodes record idx (lines
\* 81-98), extract keeps it if it is eligible (lines 134-135).
IterRecord ==
    /\ pc = "iter"
    /\ idx < count
    /\ LET r == iter_modules_record(graph, table, idx)
           e == r.entry
       IN  IF r.err # ""
           THEN /\ Fail(r.err)
                /\ UNCHANGED <<idx, decoded, bundles>>
           ELSE /\ decoded' = Append(decoded, e)
                /\ bundles' = IF should_extract(e.name, e.encoding, e.loader)
                              THEN Append(bundles, [name |-> e.name, contents |-> e.contents])
                              ELSE bundles
                /\ idx' = idx + 1
                /\ pc' = IF idx + 1 = count THEN "check" ELSE "iter"
                /\ UNCHANGED err
    /\ UNCHANGED <<input, buf, os_sep, prettify, graph, modules_raw, table, count,
                   dir_created, files, written_names, writes, prettified, call>>

\* Lines 137-142.
CheckBundles ==
    /\ pc = "check"
    /\ IF bundles = <<>>
       THEN /\ Fail(ERR_NONE_FOUND)
            /\ UNCHANGED dir_created
       ELSE /\ dir_created' = TRUE
            /\ pc' = "write"
            /\ UNCHANGED err
    /\ UNCHANGED <<input, buf, os_sep, prettify, graph, modules_raw, table, count, idx,
                   decoded, bundles, files, written_names, writes, prettified, call>>

\* One turn of the loop of lines 144-164, for the bundle after those written.
\* open() refuses a path with a NUL in it: the ValueError is not caught, and
\* the run ends there.  run_prettier rewrites the file when it succeeds; its
\* failure is printed and the loop goes on.
WriteBundle ==
    /\ pc = "write"
    /\ Len(writes) < Len(bundles)
    /\ LET b == bundles[Len(writes) + 1]
           candidate == output_candidate(b.name, os_sep, written_names)
           dest == candidate \o DOT_JS
       IN  /\ written_names' = written_names \cup {candidate}
           /\ IF \E i \in 1..Len(dest) : dest[i] = 0
              THEN /\ pc' = "crash"
                   /\ UNCHANGED <<files, writes, prettified>>
              ELSE /\ files' = (dest :> b.contents) @@ files
                   /\ writes' = Append(writes, dest)
                   /\ \E ok \in BOOLEAN :
                        prettified' = IF prettify /\ ok
                                      THEN prettified \cup {dest}
                                      ELSE prettified
                   /\ pc' = IF Len(writes) + 1 = Len(bundles) THEN "done" ELSE "write"
    /\ UNCHANGED <<input, buf, os_sep, prettify, graph, modules_raw, table, count, idx,
                   decoded, bundles, err, dir_created, call>>

Next == Locate \/ IterBegin \/ IterRecord \/ CheckBundles \/ WriteBundle

Spec == Init /\ [][Next]_vars

(***************************************************************************)
(* slice_from and find_module_graph on their own: one call on an input     *)
(* drawn from a bounded set.                                               *)
(***************************************************************************)
MaxBlobLen == 3
MaxChunks == 4

NoInput == [pool |-> <<>>, recs |-> <<>>, byte_count |-> 0, mods |-> ZeroPtr]

Blobs == UNION { [1..n -> {0, 65}] : n \in 0..MaxBlobLen }

Pointers ==
    { [offset |-> o, length |-> l] : o \in 0..(MaxBlobLen + 1), l \in 0..(MaxBlobLen + 1) }

InitSlice ==
    /\ call \in { [fn |-> "slice_from", blob |-> b, pointer |-> p, done |-> FALSE,
                   ret |-> Ok(<<>>)] : b \in Blobs, p \in Pointers }
    /\ input = NoInput
    /\ buf = <<>>
    /\ os_sep = 47
    /\ prettify = FALSE
    /\ pc = "idle"
    /\ Locals0

CallSliceFrom ==
    /\ call.fn = "slice_from"
    /\ ~call.done
    /\ call' = [call EXCEPT !.done = TRUE, !.ret = slice_from(call.blob, call.pointer)]
    /\ UNCHANGED <<input, buf, os_sep, prettify, pc, graph, modules_raw, table, count,
                   idx, decoded, bundles, err, dir_created, files, written_names, writes,
                   prettified>>

SpecSlice == InitSlice /\ [][CallSliceFrom]_vars

\* An offsets struct whose byte count is bc, and one whose byte count is 2^32.
Offsets(bc) == OffsetsBytes(bc, [offset |-> bc + 1, length |-> MODULE_STRUCT_SIZE])
OffsetsHigh == to_bytes_le(0, 4) \o to_bytes_le(1, 4) \o to_bytes_le(0, 24)

\* The pieces a file is made of.
Chunks ==
    { TRAILER,
      SubSeq(TRAILER, 1, Len(TRAILER) - 1),
      <<7, 8, 9>>,
      Offsets(0), Offsets(3), Offsets(40), Offsets(70000), OffsetsHigh }

LocateBuffers == { Concat(cs) : cs \in UNION { [1..n -> Chunks] : n \in 0..MaxChunks } }

InitLocate ==
    /\ buf \in LocateBuffers
    /\ call = [fn |-> "find_module_graph", done |-> FALSE, ret |-> NoGraph("")]
    /\ input = NoInput
    /\ os_sep = 47
    /\ prettify = FALSE
    /\ pc = "idle"
    /\ Locals0

CallFindModuleGraph ==
    /\ call.fn = "find_module_graph"
    /\ ~call.done
    /\ call' = [call EXCEPT !.done = TRUE, !.ret = find_module_graph(buf)]
    /\ UNCHANGED <<input, buf, os_sep, prettify, pc, graph, modules_raw, table, count,
                   idx, decoded, bundles, err, dir_created, files, written_names, writes,
                   prettified>>

SpecLocate == InitLocate /\ [][CallFindModuleGraph]_vars

(***************************************************************************)
(* What the description of the input says the file contains.               *)
(***************************************************************************)
DescGraphLen(in) == Len(in.pool) + Len(in.recs) * MODULE_STRUCT_SIZE

\* The byte count is the size of the graph that was laid out.  The other
\* byte counts of Inputs are 0, more than the file, or more than what
\* precedes the offsets struct.
HeaderGood(in) == in.byte_count = DescGraphLen(in)

TableEmpty(in) == in.mods.length = 0 \/ in.mods.length % MODULE_STRUCT_SIZE # 0

TablePastEnd(in) == in.mods.offset + in.mods.length > DescGraphLen(in)

\* The records the modules pointer selects.
UsedRecs(in) ==
    IF TableEmpty(in) \/ TablePastEnd(in) THEN <<>>
    ELSE SubSeq(in.recs,
                (in.mods.offset - Len(in.pool)) \div MODULE_STRUCT_SIZE + 1,
                (in.mods.offset + in.mods.length - Len(in.pool)) \div MODULE_STRUCT_SIZE)

PtrInRange(ptr, n) == ptr.length = 0 \/ ptr.offset + ptr.length <= n

RecResolves(in, r) ==
    /\ PtrInRange(r.name_ptr, DescGraphLen(in))
    /\ PtrInRange(r.contents_ptr, DescGraphLen(in))

DecodeSucceeds(in) ==
    /\ HeaderGood(in)
    /\ TableEmpty(in) \/ ~TablePastEnd(in)
    /\ \A i \in 1..Len(UsedRecs(in)) : RecResolves(in, UsedRecs(in)[i])

HasSuffix(n, ext) ==
    /\ Len(n) >= Len(ext)
    /\ \A j \in 1..Len(ext) : n[Len(n) - Len(ext) + j] = ext[j]

Eligible(e) ==
    /\ e.encoding # 0
    /\ \/ \E ext \in { <<46, 106, 115>>, <<46, 106, 115, 120>>, <<46, 116, 115>>,
                       <<46, 116, 115, 120>>, <<46, 109, 106, 115>>,
                       <<46, 99, 106, 115>> } : HasSuffix(e.name, ext)
       \/ e.loader = 1
       \/ e.loader = 2

EligibleDecoded == SelectSeq(decoded, Eligible)

SideEffects == dir_created \/ files # EmptyFiles \/ writes # <<>>

(***************************************************************************)
(* C1.  A run whose parse does not fully succeed (the trailer or the       *)
(* offsets struct is bad, the table is out of bounds, some record's        *)
(* pointer does not resolve, or no entry is eligible) ends in an           *)
(* ExtractionError with no side effect: the directory is created and a     *)
(* file written only after every record has been decoded.                  *)
(***************************************************************************)
C1_NoSideEffectsUnlessParsed ==
    /\ pc = "error" => err # "" /\ ~SideEffects
    /\ SideEffects =>
          /\ err = ""
          /\ DecodeSucceeds(input)
          /\ idx = count
          /\ Len(decoded) = Len(UsedRecs(input))
          /\ bundles # <<>>
    /\ ~DecodeSucceeds(input) => pc \in {"start", "begin", "iter", "error"}
    /\ bundles = <<>> => pc \in {"start", "begin", "iter", "check", "error"}
    /\ pc = "iter" => idx < count

C1_Witness ==
    /\ pc = "error"
    /\ err = ERR_POINTER
    /\ idx >= 1
    /\ bundles # <<>>

(***************************************************************************)
(* C2, as stated.  Every record that iter_modules has yielded has all four *)
(* of its pointers (name, contents, sourcemap, bytecode) in range of the   *)
(* graph: a record with any of them out of range fails the decode.         *)
(***************************************************************************)
C2_AllFourPointersResolved ==
    HeaderGood(input) =>
        \A i \in 1..Len(decoded) :
            LET r == UsedRecs(input)[i]
            IN  /\ PtrInRange(r.name_ptr, Len(graph))
                /\ PtrInRange(r.contents_ptr, Len(graph))
                /\ PtrInRange(r.sourcemap_ptr, Len(graph))
                /\ PtrInRange(r.bytecode_ptr, Len(graph))

(***************************************************************************)
(* C2, amended.  name_ptr and contents_ptr of each record are resolved     *)
(* against the graph: a record with one of the two out of range fails the  *)
(* decode with the pointer-out-of-range error and is not yielded, and that *)
(* error is raised for no other reason.  sourcemap_ptr and bytecode_ptr    *)
(* are read but never resolved.                                            *)
(***************************************************************************)
C2_NameAndContentsResolved ==
    HeaderGood(input) =>
        /\ \A i \in 1..Len(decoded) : RecResolves(input, UsedRecs(input)[i])
        /\ pc \in {"check", "write", "done", "crash"} =>
              Len(decoded) = Len(UsedRecs(input))
        /\ err = ERR_POINTER =>
              /\ pc = "error"
              /\ Len(decoded) = idx
              /\ idx < Len(UsedRecs(input))
              /\ ~RecResolves(input, UsedRecs(input)[idx + 1])

C2_Witness ==
    /\ HeaderGood(input)
    /\ \E i \in 1..Len(decoded) :
          ~PtrInRange(UsedRecs(input)[i].sourcemap_ptr, Len(graph))

(***************************************************************************)
(* C3.  find_module_graph fails with: trailer-not-found iff the marker     *)
(* does not occur; otherwise offsets-out-of-range iff t - 32 < 0;          *)
(* otherwise invalid-byte-count iff byte_count = 0 or byte_count >         *)
(* len(buffer); otherwise start-before-file iff byte_count > t - 32; and   *)
(* succeeds in every other case.                                           *)
(***************************************************************************)
Occurs(i) == MatchAt(buf, TRAILER, i)
HasMarker == \E i \in 0..Len(buf) : Occurs(i)
LastMarker ==
    CHOOSE i \in 0..Len(buf) : Occurs(i) /\ \A j \in (i + 1)..Len(buf) : ~Occurs(j)

U64At(p) == from_bytes_u64([k \in 1..8 |-> buf[p + k]])
U64IsZero(x) == x.hi = 0 /\ x.lo = 0
U64Exceeds(x, n) == x.hi > 0 \/ x.lo > n

ExpectedLocateErr ==
    IF ~HasMarker THEN ERR_TRAILER
    ELSE IF LastMarker - 32 < 0 THEN ERR_OFFSETS
    ELSE IF \/ U64IsZero(U64At(LastMarker - 32))
            \/ U64Exceeds(U64At(LastMarker - 32), Len(buf))
         THEN ERR_BYTE_COUNT
    ELSE IF U64Exceeds(U64At(LastMarker - 32), LastMarker - 32) THEN ERR_START
    ELSE ""

C3_ErrorPrecedence ==
    (call.fn = "find_module_graph" /\ call.done) => call.ret.err = ExpectedLocateErr

C3_Witness ==
    /\ call.fn = "find_module_graph"
    /\ call.done
    /\ call.ret.err = ERR_START
    /\ ~U64IsZero(U64At(LastMarker - 32))
    /\ ~U64Exceeds(U64At(LastMarker - 32), Len(buf))

(***************************************************************************)
(* C4.  When find_module_graph succeeds, the graph is the bytes            *)
(* [t - 32 - byte_count, t - 32) of the buffer, t the last occurrence of   *)
(* the marker and byte_count the u64 at t - 32; byte_count > 0; the        *)
(* modules pointer is the u64 at t - 24.  When the struct before the last  *)
(* occurrence is bad the call fails, whatever precedes an earlier          *)
(* occurrence.                                                             *)
(***************************************************************************)
C4_GraphIsRangeBeforeLastMarker ==
    (call.fn = "find_module_graph" /\ call.done) =>
        /\ call.ret.err = "" =>
              LET t == LastMarker
                  bc == U64At(t - 32)
              IN  /\ HasMarker
                  /\ bc.hi = 0
                  /\ bc.lo > 0
                  /\ t - 32 - bc.lo >= 0
                  /\ Len(call.ret.graph) = bc.lo
                  /\ \A k \in 1..bc.lo : call.ret.graph[k] = buf[t - 32 - bc.lo + k]
                  /\ call.ret.modules_raw = U64At(t - 24)
        /\ (/\ HasMarker
            /\ \/ LastMarker - 32 < 0
               \/ U64IsZero(U64At(LastMarker - 32))
               \/ U64Exceeds(U64At(LastMarker - 32), LastMarker - 32))
              => call.ret.err # ""

C4_Witness ==
    /\ call.fn = "find_module_graph"
    /\ call.done
    /\ call.ret.err = ""
    /\ \E i \in 0..(LastMarker - 1) : Occurs(i)

(***************************************************************************)
(* C5.  slice_from, for a pointer of length > 0, succeeds iff              *)
(* offset + length <= len(region), and fails with pointer-out-of-range     *)
(* otherwise; what it returns is taken from region[offset, offset+length)  *)
(* and from nowhere else; a pointer of length 0 resolves to the empty      *)
(* result whatever its offset.                                             *)
(***************************************************************************)
CallRange ==
    [k \in 1..call.pointer.length |-> call.blob[call.pointer.offset + k]]

C5_InclusiveUpperBound ==
    (call.fn = "slice_from" /\ call.done) =>
        LET off == call.pointer.offset
            len == call.pointer.length
        IN  /\ len = 0 => call.ret = Ok(<<>>)
            /\ len > 0 =>
                  /\ call.ret.err = "" <=> off + len <= Len(call.blob)
                  /\ call.ret.err # "" => call.ret = Raise(ERR_POINTER)
                  /\ call.ret.err = "" =>
                        /\ Len(call.ret.data) \in {len - 1, len}
                        /\ \A k \in 1..Len(call.ret.data) :
                              call.ret.data[k] = call.blob[off + k]

C5_Witness ==
    /\ call.fn = "slice_from"
    /\ call.done
    /\ call.pointer.length > 0
    /\ call.pointer.offset > 0
    /\ call.pointer.offset + call.pointer.length = Len(call.blob)
    /\ call.ret.err = ""

(***************************************************************************)
(* C7.  slice_from drops one trailing NUL and no more: the result is the   *)
(* range without its last byte when that byte is 0, the range itself       *)
(* otherwise; a range ending in two NULs gives a result ending in one, on  *)
(* which the rule would drop a byte again.                                 *)
(***************************************************************************)
C7_OneTrailingNulStripped ==
    (call.fn = "slice_from" /\ call.done /\ call.pointer.length > 0
        /\ call.ret.err = "") =>
        LET r == CallRange
            n == Len(r)
            d == call.ret.data
        IN  /\ r[n] = 0 => d = SubSeq(r, 1, n - 1)
            /\ r[n] # 0 => d = r
            /\ (n >= 2 /\ r[n] = 0 /\ r[n - 1] = 0) =>
                  /\ d[Len(d)] = 0
                  /\ slice_from(d, [offset |-> 0, length |-> Len(d)]).data # d

C7_Witness ==
    /\ call.fn = "slice_from"
    /\ call.done
    /\ call.ret.err = ""
    /\ call.pointer.length >= 2
    /\ CallRange[call.pointer.length] = 0
    /\ CallRange[call.pointer.length - 1] = 0
    /\ call.ret.data # <<>>
    /\ call.ret.data[Len(call.ret.data)] = 0

(***************************************************************************)
(* C6.  When the length of the modules pointer is 0 or not a multiple of   *)
(* 36, iter_modules yields nothing and raises nothing, whatever the        *)
(* offset, also when offset + length is past the end of the graph.  When   *)
(* it is a non-zero multiple of 36, offset + length > len(graph) fails     *)
(* with the table-out-of-bounds error, which is raised in no other case.   *)
(***************************************************************************)
C6_EmptyTableBeforeBounds ==
    (HeaderGood(input) /\ pc \notin {"start", "begin"}) =>
        /\ TableEmpty(input) =>
              /\ decoded = <<>>
              /\ count = 0
              /\ pc \in {"check", "error"}
              /\ err \in {"", ERR_NONE_FOUND}
        /\ (~TableEmpty(input) /\ TablePastEnd(input)) =>
              /\ pc = "error"
              /\ err = ERR_TABLE
              /\ decoded = <<>>
        /\ err = ERR_TABLE => ~TableEmpty(input) /\ TablePastEnd(input)
        /\ (~TableEmpty(input) /\ ~TablePastEnd(input)) =>
              count = input.mods.length \div MODULE_STRUCT_SIZE

C6_Witness ==
    /\ HeaderGood(input)
    /\ pc = "check"
    /\ input.mods.length # 0
    /\ TableEmpty(input)
    /\ TablePastEnd(input)
    /\ decoded = <<>>

(***************************************************************************)
(* C8.  An entry is eligible exactly when encoding # 0 and (its name ends  *)
(* with .js, .jsx, .ts, .tsx, .mjs or .cjs, or loader is 1 or 2); extract  *)
(* keeps exactly the eligible entries, in table order, and writes them in  *)
(* that order.                                                             *)
(***************************************************************************)
C8_EligibleEntriesPersisted ==
    /\ Len(bundles) = Len(EligibleDecoded)
    /\ \A i \in 1..Len(bundles) :
          /\ bundles[i].name = EligibleDecoded[i].name
          /\ bundles[i].contents = EligibleDecoded[i].contents
    /\ HeaderGood(input) =>
          \A i \in 1..Len(decoded) :
              /\ decoded[i].encoding = UsedRecs(input)[i].encoding
              /\ decoded[i].loader = UsedRecs(input)[i].loader
    /\ Len(writes) <= Len(bundles)
    /\ \A i \in 1..Len(writes) :
          /\ writes[i] \in DOMAIN files
          /\ files[writes[i]] = bundles[i].contents
    /\ pc = "done" => Len(writes) = Len(bundles)

C8_Witness ==
    /\ pc = "done"
    /\ Len(decoded) = 3
    /\ decoded[1].encoding = 0
    /\ ~Eligible(decoded[1])
    /\ HasSuffix(decoded[2].name, <<46, 116, 115>>)
    /\ decoded[2].loader = 0
    /\ ~HasSuffix(decoded[3].name, <<46, 106, 115>>)
    /\ decoded[3].loader = 1
    /\ Len(writes) = 2

(***************************************************************************)
(* C9.  The output names chosen so far are pairwise distinct, so no write  *)
(* replaces a file written earlier in the run, and a run that ends has     *)
(* written as many files as there are eligible entries.                    *)
(***************************************************************************)
C9_OutputNamesDistinct ==
    /\ \A i, j \in 1..Len(writes) : i # j => writes[i] # writes[j]
    /\ Cardinality(DOMAIN files) = Len(writes)
    /\ Cardinality(written_names) \in {Len(writes), Len(writes) + 1}
    /\ pc # "crash" => Cardinality(written_names) = Len(writes)
    /\ pc = "done" => Cardinality(DOMAIN files) = Len(EligibleDecoded)

\* "a", "a" and "a_1" have been written as a.js, a_1.js and a_1_1.js.
C9_Witness ==
    /\ pc = "done"
    /\ Len(bundles) = 3
    /\ bundles[2].name = <<97>>
    /\ bundles[3].name = <<97, 95, 49>>
    /\ writes = << <<97, 46, 106, 115>>, <<97, 95, 49, 46, 106, 115>>,
                   <<97, 95, 49, 95, 49, 46, 106, 115>> >>

(***************************************************************************)
(* C10.  Every file name extract derives from an entry name is non-empty   *)
(* and has no "/" in it (nor the separator of the platform), so every file *)
(* written is a direct child of the output directory.                      *)
(***************************************************************************)
PlainFileName(f) ==
    /\ Len(f) > Len(DOT_JS)
    /\ HasSuffix(f, DOT_JS)
    /\ \A k \in 1..Len(f) : f[k] # SLASH /\ f[k] # os_sep

====
